---- MODULE Spec2Model ----
(***************************************************************************)
(* Model of scripts/generate_index2.py: the HTML sanitizer, the field      *)
(* formatters, the episode extraction of main and its template             *)
(* substitutions.                                                          *)
(*                                                                         *)
(* A Python str is modelled as a sequence of one-character strings, so     *)
(* that strip, lower, startswith, split, isdigit, int and html.escape are  *)
(* computed character by character.  The module is kept in ASCII: each     *)
(* non-ASCII character of the source is one element named by its code      *)
(* point ("U+5206" is the minutes unit, "U+FF0C" the full-width comma).    *)
(* Python's None is the value None below.                                  *)
(***************************************************************************)
EXTENDS Integers, Sequences, FiniteSets, TLC

VARIABLES
    fed,          \* history: the parser events given to the sanitizer so far
    skip_stack,   \* HTMLSanitizer._skip_stack
    parts,        \* HTMLSanitizer._parts
    origin,       \* history: origin[k] is the index in fed of the event that appended parts[k]
    rawdata,      \* HTMLParser.rawdata: the events of the fed document not yet handled
    callee,       \* the formatter that was called, "" before the call
    value,        \* the argument of the formatter
    returned,     \* what the formatter returned
    pc,           \* where main stands: the statement it executes next, "done" or "failed"
    disk,         \* the files: template, rss, apple (read) and output (written)
    error,        \* the exception that ended main, "" when none
    template_html,
    show,         \* the show-level values of main: show_title, show_description_html, ...
    apple_episode_map,
    items,        \* the items of the channel the loop of main has not reached yet
    episodes,
    all_keywords,
    now_year,
    result,       \* the document main builds and writes
    applied,      \* the substitutions result has been through
    run,          \* 1 in the first run of main, 2 in the second
    previous,     \* what the first run left: the output and the year it read
    script,       \* the script of the page: "off", "loading" or "ready"
    dom,          \* the page the script works on
    episodesData,
    allKeywordsSet,
    activeTags,
    activeTagSet,
    keywordDataReady

sanVars == <<fed, skip_stack, parts, origin, rawdata>>

fmtVars == <<callee, value, returned>>

clientVars == <<script, dom, episodesData, allKeywordsSet, activeTags, activeTagSet,
                keywordDataReady>>

mainVars == <<pc, disk, error, template_html, show, apple_episode_map, items, episodes,
              all_keywords, now_year, result, applied, run, previous>>

\* Python's None; no str equals it, a str being a sequence of one-character strings
None == <<"<None>">>

(***************************************************************************)
(* Strings                                                                 *)
(***************************************************************************)
UpperLetters == <<"A","B","C","D","E","F","G","H","I","J","K","L","M",
                  "N","O","P","Q","R","S","T","U","V","W","X","Y","Z">>

LowerLetters == <<"a","b","c","d","e","f","g","h","i","j","k","l","m",
                  "n","o","p","q","r","s","t","u","v","w","x","y","z">>

\* str.lower() on one character
LowerChar(c) ==
    IF \E i \in DOMAIN UpperLetters : UpperLetters[i] = c
    THEN LowerLetters[CHOOSE i \in DOMAIN UpperLetters : UpperLetters[i] = c]
    ELSE c

\* str.lower()
Lower(s) == [i \in DOMAIN s |-> LowerChar(s[i])]

\* str.startswith(prefix)
StartsWith(s, prefix) ==
    /\ Len(s) >= Len(prefix)
    /\ SubSeq(s, 1, Len(prefix)) = prefix

\* the characters str.strip() removes
IsSpace(c) == c \in {" ", "\t", "\n"}

RECURSIVE LStrip(_)
LStrip(s) == IF s # <<>> /\ IsSpace(Head(s)) THEN LStrip(Tail(s)) ELSE s

RECURSIVE RStrip(_)
RStrip(s) ==
    IF s # <<>> /\ IsSpace(s[Len(s)]) THEN RStrip(SubSeq(s, 1, Len(s) - 1)) ELSE s

\* str.strip()
Strip(s) == RStrip(LStrip(s))

\* html.escape on one character; the quote characters only when quote=True
EscapeChar(c, quote) ==
    CASE c = "&" -> <<"&","a","m","p",";">>
      [] c = "<" -> <<"&","l","t",";">>
      [] c = ">" -> <<"&","g","t",";">>
      [] c = "\"" /\ quote -> <<"&","q","u","o","t",";">>
      [] c = "'" /\ quote -> <<"&","#","x","2","7",";">>
      [] OTHER -> <<c>>

RECURSIVE html_escape(_, _)
html_escape(s, quote) ==
    IF s = <<>> THEN <<>>
    ELSE EscapeChar(Head(s), quote) \o html_escape(Tail(s), quote)

(***************************************************************************)
(* HTMLSanitizer                                                           *)
(***************************************************************************)
FORBIDDEN_TAGS == {"script", "style", "iframe", "object", "embed", "link"}

\* KeepAttr comparing the name as written, without lower()
KeepAttrCaseSensitive(a) ==
    /\ a.value # None
    /\ ~StartsWith(a.name, <<"o","n">>)
    /\ ~(/\ a.name \in {<<"h","r","e","f">>, <<"s","r","c">>}
         /\ StartsWith(a.value, <<"j","a","v","a","s","c","r","i","p","t",":">>))
    /\ a.name # <<"s","t","y","l","e">>

\* KeepAttr dropping every href and src, whatever the value
KeepAttrNoLinks(a) ==
    LET lower_name == Lower(a.name) IN
    /\ a.value # None
    /\ ~StartsWith(lower_name, <<"o","n">>)
    /\ lower_name \notin {<<"h","r","e","f">>, <<"s","r","c">>}
    /\ lower_name # <<"s","t","y","l","e">>

\* the attribute filter of handle_starttag and handle_startendtag, one attribute
KeepAttr(a) ==
    LET lower_name == Lower(a.name) IN
    /\ a.value # None
    /\ ~StartsWith(lower_name, <<"o","n">>)
    /\ ~(/\ lower_name \in {<<"h","r","e","f">>, <<"s","r","c">>}
         /\ StartsWith(Lower(a.value), <<"j","a","v","a","s","c","r","i","p","t",":">>))
    /\ lower_name # <<"s","t","y","l","e">>

\* safe_attrs, each value as it is serialized: html_escape(value, quote=True)
RECURSIVE SafeAttrs(_)
SafeAttrs(attrs) ==
    IF attrs = <<>> THEN <<>>
    ELSE LET a == Head(attrs) IN
         (IF KeepAttr(a)
          THEN <<[name |-> a.name, value |-> html_escape(a.value, TRUE)]>>
          ELSE <<>>) \o SafeAttrs(Tail(attrs))

\* an emitted text part, <tag attrs>, </tag> or <tag attrs/>
Part(kind, tag, attrs, text) == [kind |-> kind, tag |-> tag, attrs |-> attrs, text |-> text]

\* self._parts.append(p)
Emit(self, p) == [self EXCEPT !.parts = Append(@, p)]

\* PopsStack popping at the end tag of any forbidden element
PopsStackAnyForbidden(stack, tag) == tag \in FORBIDDEN_TAGS

\* the condition under which an end tag pops the suppression stack
PopsStack(stack, tag) == tag = stack[Len(stack)]

\* PushWhileSkipping that leaves the stack as it is
PushWhileSkippingNothing(stack, tag) == stack

\* the stack after a start tag seen while suppressing
PushWhileSkipping(stack, tag) ==
    IF tag \in FORBIDDEN_TAGS THEN Append(stack, tag) ELSE stack

\* the handlers: self is the sanitizer, [skip_stack, parts], and the value is the
\* sanitizer after the call
handle_starttag(self, ev) ==
    IF self.skip_stack # <<>>
    THEN [self EXCEPT !.skip_stack = PushWhileSkipping(@, ev.tag)]
    ELSE IF ev.tag \in FORBIDDEN_TAGS
    THEN [self EXCEPT !.skip_stack = Append(@, ev.tag)]
    ELSE Emit(self, Part("open", ev.tag, SafeAttrs(ev.attrs), <<>>))

handle_endtag(self, ev) ==
    IF self.skip_stack # <<>>
    THEN IF PopsStack(self.skip_stack, ev.tag)
         THEN [self EXCEPT !.skip_stack = SubSeq(@, 1, Len(@) - 1)]
         ELSE self
    ELSE IF ev.tag \in FORBIDDEN_TAGS
    THEN self
    ELSE Emit(self, Part("close", ev.tag, <<>>, <<>>))

handle_startendtag(self, ev) ==
    IF self.skip_stack # <<>> \/ ev.tag \in FORBIDDEN_TAGS
    THEN self
    ELSE Emit(self, Part("selfclose", ev.tag, SafeAttrs(ev.attrs), <<>>))

handle_data(self, ev) ==
    IF self.skip_stack # <<>>
    THEN self
    ELSE IF ev.data # <<>>
    THEN Emit(self, Part("text", "", <<>>, html_escape(ev.data, FALSE)))
    ELSE self

\* HTMLParser.feed: the handler of each event of the document in turn
RECURSIVE feed(_, _)
feed(self, events) ==
    IF events = <<>> THEN self
    ELSE LET ev == Head(events) IN
         feed(CASE ev.kind = "start" -> handle_starttag(self, ev)
                [] ev.kind = "end" -> handle_endtag(self, ev)
                [] ev.kind = "startend" -> handle_startendtag(self, ev)
                [] ev.kind = "data" -> handle_data(self, ev),
              Tail(events))

IsBlankText(p) == p.kind = "text" /\ Strip(p.text) = <<>>

\* "".join(self._parts).strip(): the blank text at both ends removed
RECURSIVE get_html(_)
get_html(ps) ==
    IF ps = <<>> THEN <<>>
    ELSE IF IsBlankText(Head(ps)) THEN get_html(Tail(ps))
    ELSE IF IsBlankText(ps[Len(ps)]) THEN get_html(SubSeq(ps, 1, Len(ps) - 1))
    ELSE LET first == IF ps[1].kind = "text"
                      THEN [ps EXCEPT ![1].text = LStrip(@)]
                      ELSE ps
         IN IF first[Len(ps)].kind = "text"
            THEN [first EXCEPT ![Len(ps)].text = RStrip(@)]
            ELSE first

\* HTMLSanitizer(): nothing suppressed, nothing emitted
HTMLSanitizer == [skip_stack |-> <<>>, parts |-> <<>>]

\* a document is given as the events the parser makes of it; the absent document
\* (None) and the empty one are both <<>>, and "if not value" takes both
sanitize_html(v) ==
    IF v = <<>> THEN <<>> ELSE get_html(feed(HTMLSanitizer, v).parts)

\* the sanitizer as it stands
Self == [skip_stack |-> skip_stack, parts |-> parts]

\* the parser has handed ev to a handler, which left the sanitizer as after
Handled(ev, after) ==
    /\ fed' = Append(fed, ev)
    /\ skip_stack' = after.skip_stack
    /\ parts' = after.parts
    /\ origin' = IF Len(after.parts) > Len(parts) THEN Append(origin, Len(fed) + 1) ELSE origin

StartTag(ev) == ev.kind = "start" /\ Handled(ev, handle_starttag(Self, ev))

EndTag(ev) == ev.kind = "end" /\ Handled(ev, handle_endtag(Self, ev))

StartEndTag(ev) == ev.kind = "startend" /\ Handled(ev, handle_startendtag(Self, ev))

Data(ev) == ev.kind = "data" /\ Handled(ev, handle_data(Self, ev))

Event(kind, tag, attrs, data) == [kind |-> kind, tag |-> tag, attrs |-> attrs, data |-> data]

(***************************************************************************)
(* Field formatters                                                        *)
(***************************************************************************)
Digits == <<"0","1","2","3","4","5","6","7","8","9">>

IsDigitChar(c) == \E i \in DOMAIN Digits : Digits[i] = c

\* str.isdigit(): not empty, and every character a digit
IsDigit(s) == s # <<>> /\ \A i \in DOMAIN s : IsDigitChar(s[i])

DigitValue(c) == (CHOOSE i \in DOMAIN Digits : Digits[i] = c) - 1

\* int(s) of a string of digits
RECURSIVE ToInt(_)
ToInt(s) ==
    IF s = <<>> THEN 0
    ELSE 10 * ToInt(SubSeq(s, 1, Len(s) - 1)) + DigitValue(s[Len(s)])

\* str(n) of a natural number, as the f-strings format it
RECURSIVE ToStr(_)
ToStr(n) ==
    IF n < 10 THEN <<Digits[n + 1]>>
    ELSE ToStr(n \div 10) \o <<Digits[(n % 10) + 1]>>

\* str.split and re.split on single-character separators: the pieces between them
RECURSIVE Split(_, _)
Split(s, seps) ==
    IF \E i \in DOMAIN s : s[i] \in seps
    THEN LET i == CHOOSE i \in DOMAIN s :
                      s[i] \in seps /\ \A j \in 1..(i - 1) : s[j] \notin seps
         IN <<SubSeq(s, 1, i - 1)>> \o Split(SubSeq(s, i + 1, Len(s)), seps)
    ELSE <<s>>

\* " ".join(segments)
RECURSIVE JoinSpace(_)
JoinSpace(segments) ==
    IF segments = <<>> THEN <<>>
    ELSE IF Len(segments) = 1 THEN segments[1]
    ELSE segments[1] \o <<" ">> \o JoinSpace(Tail(segments))

\* the unit words of format_duration
HourUnit == <<"U+5C0F", "U+6642">>

MinuteUnit == <<"U+5206">>

SecondUnit == <<"U+79D2">>

\* total_seconds with a two-part value read as hours and minutes
TotalSecondsHoursFirst(raw) ==
    IF IsDigit(raw) THEN ToInt(raw)
    ELSE LET pieces == Split(raw, {":"})
             ints == [i \in DOMAIN pieces |->
                         IF IsDigit(Strip(pieces[i])) THEN ToInt(Strip(pieces[i])) ELSE 0]
         IN CASE Len(ints) = 3 -> ints[1] * 3600 + ints[2] * 60 + ints[3]
              [] Len(ints) = 2 -> ints[1] * 3600 + ints[2] * 60
              [] Len(ints) = 1 -> ints[1]
              [] OTHER -> 0

\* total_seconds of the stripped value
TotalSeconds(raw) ==
    IF IsDigit(raw) THEN ToInt(raw)
    ELSE LET pieces == Split(raw, {":"})
             ints == [i \in DOMAIN pieces |->
                         IF IsDigit(Strip(pieces[i])) THEN ToInt(Strip(pieces[i])) ELSE 0]
         IN CASE Len(ints) = 3 -> ints[1] * 3600 + ints[2] * 60 + ints[3]
              [] Len(ints) = 2 -> ints[1] * 60 + ints[2]
              [] Len(ints) = 1 -> ints[1]
              [] OTHER -> 0

\* FormatSegments with the seconds shown whenever they are not zero
FormatSegmentsAllSeconds(total_seconds) ==
    LET hours == total_seconds \div 3600
        minutes == (total_seconds % 3600) \div 60
        seconds == total_seconds % 60
    IN JoinSpace(
        (IF hours # 0 THEN <<ToStr(hours) \o <<" ">> \o HourUnit>> ELSE <<>>)
        \o (IF minutes # 0 THEN <<ToStr(minutes) \o <<" ">> \o MinuteUnit>> ELSE <<>>)
        \o (IF seconds # 0 THEN <<ToStr(seconds) \o <<" ">> \o SecondUnit>> ELSE <<>>))

\* hours, minutes, seconds, the segments and their join
FormatSegments(total_seconds) ==
    LET hours == total_seconds \div 3600
        minutes == (total_seconds % 3600) \div 60
        seconds == total_seconds % 60
    IN JoinSpace(
        (IF hours # 0 THEN <<ToStr(hours) \o <<" ">> \o HourUnit>> ELSE <<>>)
        \o (IF minutes # 0 THEN <<ToStr(minutes) \o <<" ">> \o MinuteUnit>> ELSE <<>>)
        \o (IF hours = 0 /\ seconds # 0
            THEN <<ToStr(seconds) \o <<" ">> \o SecondUnit>>
            ELSE <<>>))

\* "not value": None or the empty string
Falsy(v) == v = None \/ v = <<>>

format_duration(v) ==
    IF Falsy(v) THEN <<>>
    ELSE LET raw == Strip(v) IN
         IF raw = <<>> THEN <<>> ELSE FormatSegments(TotalSeconds(raw))

\* the separators of parse_keywords with the ASCII comma only
KeywordSeparatorsAscii == {","}

\* the separators of parse_keywords: the ASCII and the full-width comma
KeywordSeparators == {",", "U+FF0C"}

\* the loop of parse_keywords over the pieces not yet seen
RECURSIVE CollectKeywords(_, _)
CollectKeywords(pieces, keywords) ==
    IF pieces = <<>> THEN keywords
    ELSE LET keyword == Strip(Head(pieces)) IN
         IF keyword = <<>> \/ \E i \in DOMAIN keywords : keywords[i] = keyword
         THEN CollectKeywords(Tail(pieces), keywords)
         ELSE CollectKeywords(Tail(pieces), Append(keywords, keyword))

parse_keywords(v) ==
    IF Falsy(v) THEN <<>> ELSE CollectKeywords(Split(v, KeywordSeparators), <<>>)

normalize_guid(v) == IF Falsy(v) THEN <<>> ELSE Lower(Strip(v))

\* all strings of at most n characters of chars
StringsUpTo(chars, n) == UNION {[1..k -> chars] : k \in 0..n}

MaxDurationLen == 5

DurationChars == {"0", "1", "5", "9", ":", " ", "x"}

DurationInputs ==
    StringsUpTo(DurationChars, MaxDurationLen)
    \cup { None,
           <<"3","6","6","1">>,
           <<"1","2","5">>,
           <<"0","1",":","0","2",":","0","3">>,
           <<"1",":","0","0",":","5","9">>,
           <<"1",":","2",":","3",":","4">>,
           <<" ","7","2","0","0","\n">> }

MaxKeywordsLen == 5

KeywordChars == {"A", "b", " ", ",", "U+FF0C"}

KeywordInputs ==
    StringsUpTo(KeywordChars, MaxKeywordsLen)
    \cup { None,
           <<"A",","," ","B",",","A"," ",",","U+FF0C","C">> }

\* no formatter has been called
NoCall ==
    /\ callee = ""
    /\ value = None
    /\ returned = None

Return(name, r) ==
    /\ callee = ""
    /\ callee' = name
    /\ returned' = r
    /\ UNCHANGED value

(***************************************************************************)
(* Markup.  A document (the template, a rendered card, the output) is the  *)
(* sequence of its tags and texts, in the form of the sanitizer's parts:   *)
(* a tag holds its name and its attributes as serialized, a text holds its *)
(* characters as serialized.  The indentation main puts before inserted    *)
(* lines is left out, except where a pattern reads it.                     *)
(***************************************************************************)
Attr(name, v) == [name |-> name, value |-> v]

Text(chars) == Part("text", "", <<>>, chars)

Open(tag, attrs) == Part("open", tag, attrs, <<>>)

Close(tag) == Part("close", tag, <<>>, <<>>)

SelfClose(tag, attrs) == Part("selfclose", tag, attrs, <<>>)

\* what json.dumps(..., ensure_ascii=False) makes of one character of a string
JsonChar(c) ==
    CASE c = "\"" -> <<"\\", "\"">>
      [] c = "\\" -> <<"\\", "\\">>
      [] c = "\n" -> <<"\\", "n">>
      [] c = "\t" -> <<"\\", "t">>
      [] OTHER -> <<c>>

RECURSIVE JsonChars(_)
JsonChars(s) == IF s = <<>> THEN <<>> ELSE JsonChar(Head(s)) \o JsonChars(Tail(s))

\* json.dumps of a str
JsonStr(s) == <<"\"">> \o JsonChars(s) \o <<"\"">>

\* sep.join(strings)
RECURSIVE Join(_, _)
Join(strings, sep) ==
    IF strings = <<>> THEN <<>>
    ELSE IF Len(strings) = 1 THEN strings[1]
    ELSE strings[1] \o sep \o Join(Tail(strings), sep)

\* json.dumps of a list of str
JsonList(strings) ==
    <<"[">> \o Join([i \in DOMAIN strings |-> JsonStr(strings[i])], <<","," ">>) \o <<"]">>

\* the escapes of a replacement template that re accepts: letters that stand for
\* a control character, and g of a group reference
TemplateEscapes == {"a", "b", "f", "n", "r", "t", "v", "g"}

IsAsciiLetter(c) ==
    \E i \in DOMAIN UpperLetters : UpperLetters[i] = c \/ LowerLetters[i] = c

\* the backslash at i begins an escape: it is not the second of a pair, that is,
\* an even number of backslashes stands right before it
IsEscapeStart(chars, i) ==
    /\ chars[i] = "\\"
    /\ i < Len(chars)
    /\ LET before == {j \in 0..(i - 1) : j = 0 \/ chars[j] # "\\"}
           last == CHOOSE j \in before : \A m \in before : m <= j
       IN (i - 1 - last) % 2 = 0

HasBackslash(chars) == \E i \in DOMAIN chars : chars[i] = "\\"

\* re raises "bad escape": a backslash before an ASCII letter that is no escape
BadEscape(chars) ==
    /\ HasBackslash(chars)
    /\ \E i \in DOMAIN chars :
          /\ IsEscapeStart(chars, i)
          /\ IsAsciiLetter(chars[i + 1])
          /\ chars[i + 1] \notin TemplateEscapes

\* the escapes that stand for one character
ControlEscapes == {"n", "t", "r", "\\"}

\* what re.sub makes of the text of a replacement: \n, \t, \r become the control
\* character, \\ one backslash, a backslash before any other non-letter stays.
\* The inputs hold no group reference (\1, \g<1>) and no \a \b \f \v.
ExpandTemplate(chars) ==
    IF ~HasBackslash(chars) THEN chars
    ELSE LET marked ==
                 [i \in DOMAIN chars |->
                     IF i > 1 /\ IsEscapeStart(chars, i - 1) /\ chars[i] \in ControlEscapes
                     THEN ""
                     ELSE IF IsEscapeStart(chars, i) /\ chars[i + 1] \in ControlEscapes
                     THEN (CASE chars[i + 1] = "n" -> "\n"
                             [] chars[i + 1] = "t" -> "\t"
                             [] chars[i + 1] = "r" -> "\r"
                             [] OTHER -> "\\")
                     ELSE chars[i]]
         IN SelectSeq(marked, LAMBDA c : c # "")

\* the tags and texts of a replacement as re.sub inserts them
ExpandParts(ps) ==
    [i \in DOMAIN ps |->
        Part(ps[i].kind, ps[i].tag,
             [a \in DOMAIN ps[i].attrs |->
                 Attr(ps[i].attrs[a].name, ExpandTemplate(ps[i].attrs[a].value))],
             ExpandTemplate(ps[i].text))]

\* the replacement holds a bad escape
PartsRaise(ps) ==
    \E i \in DOMAIN ps :
        \/ BadEscape(ps[i].text)
        \/ \E a \in DOMAIN ps[i].attrs : BadEscape(ps[i].attrs[a].value)

(***************************************************************************)
(* Episode and render_episode_card                                         *)
(***************************************************************************)
Episode(title, pub_date, duration, description_html, summary, keywords, cover, apple_link, guid) ==
    [title |-> title, pub_date |-> pub_date, duration |-> duration,
     description_html |-> description_html, summary |-> summary, keywords |-> keywords,
     cover |-> cover, apple_link |-> apple_link, guid |-> guid]

render_description(description_html, summary) ==
    <<Open("div", <<Attr(<<"c","l","a","s","s">>, <<"e","p","i","s","o","d","e","-","d","e","s","c","r","i","p","t","i","o","n">>)>>)>>
    \o (IF description_html # <<>> THEN description_html
        ELSE IF summary # <<>> THEN <<Text(html_escape(summary, FALSE))>>
        ELSE <<>>)
    \o <<Close("div")>>

\* the label of the action link: "play <title> in Apple Podcasts"
PlayLabel(title) ==
    <<"U+5728"," ","A","p","p","l","e"," ","P","o","d","c","a","s","t","s"," ","U+64AD","U+653E","U+3008">> \o title \o <<"U+3009">>

\* the episode-actions block of the card
ActionBlock(episode) ==
    << Open("div", <<Attr(<<"c","l","a","s","s">>, <<"e","p","i","s","o","d","e","-","a","c","t","i","o","n","s">>)>>),
       Open("a", << Attr(<<"c","l","a","s","s">>, <<"e","p","i","s","o","d","e","-","a","c","t","i","o","n">>),
                    Attr(<<"h","r","e","f">>, html_escape(episode.apple_link, TRUE)),
                    Attr(<<"t","a","r","g","e","t">>, <<"_","b","l","a","n","k">>),
                    Attr(<<"r","e","l">>, <<"n","o","o","p","e","n","e","r"," ","n","o","r","e","f","e","r","r","e","r">>),
                    Attr(<<"a","r","i","a","-","l","a","b","e","l">>, html_escape(PlayLabel(episode.title), TRUE)) >>),
       Open("span", <<Attr(<<"c","l","a","s","s">>, <<"i","c","o","n">>), Attr(<<"a","r","i","a","-","h","i","d","d","e","n">>, <<"t","r","u","e">>)>>),
       Text(<<"U+25B6","U+FE0F">>),
       Close("span"),
       Open("span", <<Attr(<<"c","l","a","s","s">>, <<"s","r","-","o","n","l","y">>)>>),
       Text(html_escape(PlayLabel(episode.title), FALSE)),
       Close("span"),
       Close("a"),
       Close("div") >>

render_episode_card(episode) ==
    <<Open("article", << Attr(<<"c","l","a","s","s">>, <<"e","p","i","s","o","d","e","-","c","a","r","d">>),
                         Attr(<<"d","a","t","a","-","t","i","t","l","e">>, html_escape(episode.title, TRUE)),
                         Attr(<<"d","a","t","a","-","k","e","y","w","o","r","d","s">>, html_escape(JsonList(episode.keywords), TRUE)) >>)>>
    \o (IF episode.cover # <<>>
        THEN << Open("div", <<Attr(<<"c","l","a","s","s">>, <<"e","p","i","s","o","d","e","-","c","o","v","e","r">>)>>),
                SelfClose("img", << Attr(<<"s","r","c">>, html_escape(episode.cover, TRUE)),
                                    Attr(<<"a","l","t">>, html_escape(episode.title \o <<" ","U+5C01","U+9762">>, TRUE)) >>),
                Close("div") >>
        ELSE <<>>)
    \o (IF episode.pub_date # <<>> \/ episode.duration # <<>>
        THEN <<Open("div", <<Attr(<<"c","l","a","s","s">>, <<"e","p","i","s","o","d","e","-","m","e","t","a">>)>>)>>
             \o (IF episode.pub_date # <<>>
                 THEN <<Open("span", <<>>), Text(html_escape(episode.pub_date, FALSE)), Close("span")>>
                 ELSE <<>>)
             \o (IF episode.duration # <<>>
                 THEN << Open("span", <<>>),
                         Text(<<"U+7BC0","U+76EE","U+9577","U+5EA6","U+FF1A">> \o html_escape(episode.duration, FALSE)),
                         Close("span") >>
                 ELSE <<>>)
             \o <<Close("div")>>
        ELSE <<>>)
    \o <<Open("h3", <<Attr(<<"c","l","a","s","s">>, <<"e","p","i","s","o","d","e","-","t","i","t","l","e">>)>>), Text(html_escape(episode.title, FALSE)), Close("h3")>>
    \o render_description(episode.description_html, episode.summary)
    \o (IF episode.apple_link # <<>> THEN ActionBlock(episode) ELSE <<>>)
    \o (IF episode.keywords # <<>>
        THEN << Open("div", <<Attr(<<"c","l","a","s","s">>, <<"e","p","i","s","o","d","e","-","k","e","y","w","o","r","d","s">>)>>),
                Text(<<"U+95DC","U+9375","U+5B57","U+FF1A">> \o html_escape(Join(episode.keywords, <<"U+3001">>), FALSE)),
                Close("div") >>
        ELSE <<>>)
    \o <<Close("article")>>

\* "\n".join(render_episode_card(ep) for ep in episodes)
RECURSIVE RenderCards(_)
RenderCards(eps) ==
    IF eps = <<>> THEN <<>> ELSE render_episode_card(Head(eps)) \o RenderCards(Tail(eps))

(***************************************************************************)
(* Template compositor: the substitutions of main, on documents.           *)
(* re.sub(pattern, repl, text, count=1) replaces the leftmost match; a     *)
(* lazy (.*?) between two tags ends at the nearest closing one.            *)
(***************************************************************************)
Least(S) == CHOOSE i \in S : \A j \in S : i <= j

\* (open)(.*?)(close) replaced by \1 inner \3: opens and closes are the positions
\* where the first and the last group can match; inner is part of the replacement
\* template
ReplaceBetween(doc, opens, closes, inner) ==
    LET starts == {i \in opens : \E j \in closes : j > i} IN
    IF starts = {} THEN doc
    ELSE LET i == Least(starts)
             j == Least({k \in closes : k > i})
         IN SubSeq(doc, 1, i) \o ExpandParts(inner) \o SubSeq(doc, j, Len(doc))

Positions(doc, p) == {i \in DOMAIN doc : doc[i] = p}

BrandOpen == Open("a", <<Attr(<<"c","l","a","s","s">>, <<"b","r","a","n","d">>), Attr(<<"h","r","e","f">>, <<"#","t","o","p">>)>>)

TitleOpen == Open("h1", <<Attr(<<"i","d">>, <<"s","h","o","w","-","t","i","t","l","e">>)>>)

DescriptionOpen == Open("p", <<Attr(<<"i","d">>, <<"s","h","o","w","-","d","e","s","c","r","i","p","t","i","o","n">>)>>)

\* where <p id="show-description"> matches
DescriptionOpens(doc) == Positions(doc, DescriptionOpen)

AuthorOpen == Open("div", <<Attr(<<"c","l","a","s","s">>, <<"h","o","s","t","-","i","n","f","o">>), Attr(<<"i","d">>, <<"s","h","o","w","-","a","u","t","h","o","r">>)>>)

CopyrightOpen == Open("span", <<Attr(<<"i","d">>, <<"c","o","p","y","r","i","g","h","t","-","y","e","a","r">>)>>)

StructuredDataOpen ==
    Open("script", <<Attr(<<"t","y","p","e">>, <<"a","p","p","l","i","c","a","t","i","o","n","/","l","d","+","j","s","o","n">>), Attr(<<"i","d">>, <<"s","t","r","u","c","t","u","r","e","d","-","d","a","t","a">>)>>)

TagSearchHidden ==
    Open("div", <<Attr(<<"c","l","a","s","s">>, <<"t","a","g","-","s","e","a","r","c","h">>), Attr(<<"i","d">>, <<"t","a","g","-","s","e","a","r","c","h">>), Attr(<<"h","i","d","d","e","n">>, None)>>)

TagSearchShown == Open("div", <<Attr(<<"c","l","a","s","s">>, <<"t","a","g","-","s","e","a","r","c","h">>), Attr(<<"i","d">>, <<"t","a","g","-","s","e","a","r","c","h">>)>>)

\* a tag whose text starts with <name first="..." where first is the attribute given
StartsWithAttr(p, kinds, tag, name) ==
    /\ p.kind \in kinds
    /\ p.tag = tag
    /\ p.attrs # <<>>
    /\ p.attrs[1].name = name
    /\ p.attrs[1].value # None

\* the newline and eight spaces before the </div> that ends the episode list
Indent8 == <<"\n"," "," "," "," "," "," "," "," ">>

\* r'(<a class="brand" href="#top">)(.*?)(</a>)'
ReplaceBrand(doc, v) ==
    ReplaceBetween(doc, Positions(doc, BrandOpen), Positions(doc, Close("a")),
                   <<Text(html_escape(v.show_title, FALSE))>>)

\* r'(<h1 id="show-title">)(.*?)(</h1>)'
ReplaceTitle(doc, v) ==
    ReplaceBetween(doc, Positions(doc, TitleOpen), Positions(doc, Close("h1")),
                   <<Text(html_escape(v.show_title, FALSE))>>)

\* r'(<p id="show-description">)(.*?)(</p>)'
ReplaceDescription(doc, v) ==
    ReplaceBetween(doc, DescriptionOpens(doc), Positions(doc, Close("p")),
                   <<Text(<<"\n">>)>> \o v.show_description_html \o <<Text(Indent8)>>)

\* r'(<div class="host-info" id="show-author">)(.*?)(</div>)'
ReplaceAuthor(doc, v) ==
    LET author_text == IF v.show_author # <<>>
                       THEN <<"U+4E3B","U+6301","U+FF1A">> \o v.show_author
                       ELSE <<>>
    IN ReplaceBetween(doc, Positions(doc, AuthorOpen), Positions(doc, Close("div")),
                      <<Text(html_escape(author_text, FALSE))>>)

\* r'<img id="show-cover"[^>]*?>'
ReplaceCover(doc, v) ==
    LET found == {i \in DOMAIN doc :
                     StartsWithAttr(doc[i], {"open", "selfclose"}, "img", <<"i","d">>)
                     /\ doc[i].attrs[1].value = <<"s","h","o","w","-","c","o","v","e","r">>}
    IN IF found = {} THEN doc
       ELSE [doc EXCEPT ![Least(found)] =
                SelfClose("img", << Attr(<<"i","d">>, <<"s","h","o","w","-","c","o","v","e","r">>),
                                    Attr(<<"s","r","c">>, ExpandTemplate(html_escape(v.show_image, TRUE))),
                                    Attr(<<"a","l","t">>, ExpandTemplate(html_escape(v.show_title \o <<" ","U+5C01","U+9762">>, TRUE))) >>)]

\* r'(<footer[\s\S]*?<a href=")([^\"]*)("[^>]*>)', only when show_link is not empty
ReplaceFooterLink(doc, v) ==
    LET footers == {i \in DOMAIN doc : doc[i].kind = "open" /\ doc[i].tag = "footer"}
        links == {j \in DOMAIN doc : StartsWithAttr(doc[j], {"open", "selfclose"}, "a", <<"h","r","e","f">>)}
        starts == {i \in footers : \E j \in links : j > i}
    IN IF v.show_link = <<>> \/ starts = {} THEN doc
       ELSE LET j == Least({k \in links : k > Least(starts)})
            IN [doc EXCEPT ![j].attrs[1].value = ExpandTemplate(html_escape(v.show_link, TRUE))]

EndsWithCopyrightSign(p) ==
    /\ p.kind = "text"
    /\ RStrip(p.text) # <<>>
    /\ RStrip(p.text)[Len(RStrip(p.text))] = "U+A9"

\* r'(c)\s*<span id="copyright-year">.*?</span>', (c) the copyright sign
ReplaceCopyright(doc, v) ==
    LET starts == {i \in DOMAIN doc :
                      /\ EndsWithCopyrightSign(doc[i])
                      /\ i + 1 <= Len(doc)
                      /\ doc[i + 1] = CopyrightOpen
                      /\ \E j \in Positions(doc, Close("span")) : j > i + 1}
    IN IF starts = {} THEN doc
       ELSE LET i == Least(starts)
                j == Least({k \in Positions(doc, Close("span")) : k > i + 1})
            IN SubSeq(doc, 1, i - 1)
               \o <<Text(RStrip(doc[i].text) \o <<" ">> \o ToStr(v.now_year))>>
               \o SubSeq(doc, j + 1, Len(doc))

\* r'(<script type="application/ld\+json" id="structured-data">)(.*?)(</script>)'
ReplaceStructuredData(doc, v) ==
    ReplaceBetween(doc, Positions(doc, StructuredDataOpen), Positions(doc, Close("script")),
                   <<Text(<<"\n">>)>> \o v.structured_data_block \o <<Text(<<"\n"," "," "," "," ">>)>>)

\* r'(<div id="episodes"[^>]*>)(.*?)(\n        </div>)'
ReplaceEpisodes(doc, v) ==
    LET opens == {i \in DOMAIN doc :
                     StartsWithAttr(doc[i], {"open"}, "div", <<"i","d">>)
                     /\ doc[i].attrs[1].value = <<"e","p","i","s","o","d","e","s">>}
        closes == {j \in DOMAIN doc :
                      /\ doc[j] = Text(Indent8)
                      /\ j + 1 <= Len(doc)
                      /\ doc[j + 1] = Close("div")}
    IN ReplaceBetween(doc, opens, closes,
                      IF v.episodes_markup # <<>>
                      THEN <<Text(<<"\n">>)>> \o v.episodes_markup \o <<Text(Indent8)>>
                      ELSE <<Text(Indent8)>>)

\* r'<div class="tag-search" id="tag-search" hidden>', only when there are keywords
ReplaceTagSearch(doc, v) ==
    IF v.all_keywords = {} \/ Positions(doc, TagSearchHidden) = {} THEN doc
    ELSE [doc EXCEPT ![Least(Positions(doc, TagSearchHidden))] = TagSearchShown]

\* static_script: the client-side filter, of which the markup it holds is kept
static_script ==
    << Text(<<"(","(",")"," ","=",">"," ","{">>),
       Open("span", <<>>), Text(<<"$","{","t","a","g","}">>), Close("span"),
       Open("span", <<Attr(<<"c","l","a","s","s">>, <<"t","a","g","-","c","h","i","p","-","r","e","m","o","v","e">>), Attr(<<"a","r","i","a","-","h","i","d","d","e","n">>, <<"t","r","u","e">>)>>),
       Text(<<"U+D7">>), Close("span"),
       Text(<<"}",")","(",")",";">>) >>

\* r'(\s*<script>\s*const structuredDataEl[\s\S]*?</script>)'
ReplaceScript(doc, v) ==
    LET starts == {i \in DOMAIN doc :
                      /\ doc[i] = Open("script", <<>>)
                      /\ i + 1 <= Len(doc)
                      /\ doc[i + 1].kind = "text"
                      /\ StartsWith(LStrip(doc[i + 1].text), <<"c","o","n","s","t"," ","s","t","r","u","c","t","u","r","e","d","D","a","t","a","E","l">>)
                      /\ \E j \in Positions(doc, Close("script")) : j > i + 1}
    IN IF starts = {} THEN doc
       ELSE LET i == Least(starts)
                j == Least({k \in Positions(doc, Close("script")) : k > i + 1})
                before == IF i > 1 /\ doc[i - 1].kind = "text"
                          THEN SubSeq(doc, 1, i - 2) \o <<Text(RStrip(doc[i - 1].text))>>
                          ELSE SubSeq(doc, 1, i - 1)
            IN before
               \o <<Text(<<" "," "," "," ">>), Open("script", <<>>), Text(<<"\n">>)>>
               \o static_script
               \o <<Text(<<"\n"," "," "," "," ">>), Close("script")>>
               \o SubSeq(doc, j + 1, Len(doc))

\* the substitutions of main, numbered in the order main applies them
Substitutions == 1..11

Substitute(k, doc, v) ==
    CASE k = 1 -> ReplaceBrand(doc, v)
      [] k = 2 -> ReplaceTitle(doc, v)
      [] k = 3 -> ReplaceDescription(doc, v)
      [] k = 4 -> ReplaceAuthor(doc, v)
      [] k = 5 -> ReplaceCover(doc, v)
      [] k = 6 -> ReplaceFooterLink(doc, v)
      [] k = 7 -> ReplaceCopyright(doc, v)
      [] k = 8 -> ReplaceStructuredData(doc, v)
      [] k = 9 -> ReplaceEpisodes(doc, v)
      [] k = 10 -> ReplaceTagSearch(doc, v)
      [] k = 11 -> ReplaceScript(doc, v)

\* re.sub compiles the replacement before it searches: substitution k raises
\* re.error when a value in its replacement holds a bad escape, match or no match
SubstitutionRaises(k, v) ==
    CASE k \in {1, 2} -> BadEscape(html_escape(v.show_title, FALSE))
      [] k = 3 -> PartsRaise(v.show_description_html)
      [] k = 4 -> BadEscape(html_escape(v.show_author, FALSE))
      [] k = 5 -> BadEscape(html_escape(v.show_image, TRUE)) \/ BadEscape(html_escape(v.show_title, TRUE))
      [] k = 6 -> v.show_link # <<>> /\ BadEscape(html_escape(v.show_link, TRUE))
      [] k = 8 -> PartsRaise(v.structured_data_block)
      [] k = 9 -> PartsRaise(v.episodes_markup)
      [] OTHER -> FALSE

\* the substitutions k..11 applied in turn
RECURSIVE SubstituteFrom(_, _, _)
SubstituteFrom(k, doc, v) ==
    IF k > 11 THEN doc ELSE SubstituteFrom(k + 1, Substitute(k, doc, v), v)

\* the substitutions of lines 374-747 in the order of main
Compose(template, v) == SubstituteFrom(1, template, v)

(***************************************************************************)
(* main                                                                    *)
(***************************************************************************)
\* format_date; no input of the model is a date parsedate_to_datetime accepts, so
\* the value is returned as it is (lines 158-163)
format_date(v) == IF Falsy(v) THEN <<>> ELSE v

\* "x or y" of Python
Or(x, y) == IF Falsy(x) THEN y ELSE x

DefaultShowTitle == <<"U+79D1","U+5B78","U+597D","U+597D","U+807D">>

DefaultLanguage == <<"z","h","-","H","a","n","t">>

\* the title of an episode without one
PlaceholderTitle == <<"U+672A","U+547D","U+540D","U+96C6","U+6578">>

\* title = (item.findtext("title") or placeholder).strip()
EpisodeTitle(raw_title) == Strip(Or(raw_title, PlaceholderTitle))

\* if item.get("episodeGuid") and item.get("trackViewUrl")
Indexed(entry) == ~Falsy(entry.episodeGuid) /\ ~Falsy(entry.trackViewUrl)

\* the dict comprehension of apple_episode_map: a later entry replaces an earlier one
\* of the same key
RECURSIVE EpisodeMap(_)
EpisodeMap(results) ==
    IF results = <<>> THEN <<>>
    ELSE LET last == results[Len(results)]
             rest == EpisodeMap(SubSeq(results, 1, Len(results) - 1))
             key == normalize_guid(last.episodeGuid)
         IN IF Indexed(last)
            THEN SelectSeq(rest, LAMBDA e : e.key # key) \o <<[key |-> key, url |-> last.trackViewUrl]>>
            ELSE rest

\* apple_episode_map.get(guid, ""); the map is kept as its (key, url) pairs
MapGet(map, guid) ==
    IF \E i \in DOMAIN map : map[i].key = guid
    THEN map[CHOOSE i \in DOMAIN map : map[i].key = guid].url
    ELSE <<>>

\* the body of the loop over the items: the Episode of one item
ExtractEpisode(item, map) ==
    LET cover == IF item.image = None THEN <<>> ELSE item.image
        guid == normalize_guid(item.guid)
    IN Episode(EpisodeTitle(item.title),
               format_date(item.pubDate),
               format_duration(item.duration),
               sanitize_html(IF item.encoded # <<>> THEN item.encoded ELSE item.description),
               Strip(Or(item.summary, <<>>)),
               parse_keywords(Or(item.keywords, <<>>)),
               cover,
               MapGet(map, guid),
               guid)

\* the text of a tag that json.dumps escapes: its quotes gain a backslash
EscapedTag(ev) ==
    Text(<<"<", ev.tag>>
         \o Join([i \in DOMAIN ev.attrs |->
                     <<" ">> \o ev.attrs[i].name
                     \o (IF ev.attrs[i].value = None THEN <<>>
                         ELSE <<"=", "\\", "\"">> \o JsonChars(ev.attrs[i].value) \o <<"\\", "\"">>)],
                 <<>>)
         \o (IF ev.kind = "startend" THEN <<"/", ">">> ELSE <<">">>))

\* a str of markup inside the JSON of the structured data: a tag without
\* attributes reads as before, every other text is escaped
RECURSIVE JsonEmbed(_)
JsonEmbed(events) ==
    IF events = <<>> THEN <<>>
    ELSE LET ev == Head(events) IN
         <<CASE ev.kind = "data" -> Text(JsonChars(ev.data))
             [] ev.kind = "end" -> Close(ev.tag)
             [] ev.kind = "start" /\ ev.attrs = <<>> -> Open(ev.tag, <<>>)
             [] ev.kind = "startend" /\ ev.attrs = <<>> -> SelfClose(ev.tag, <<>>)
             [] OTHER -> EscapedTag(ev)>>
         \o JsonEmbed(Tail(events))

\* structured_data_block
StructuredDataBlock(sh) ==
    <<Text(<<"{","\"","@","c","o","n","t","e","x","t","\"",":"," ","\"","h","t","t","p","s",":","/","/","s","c","h","e","m","a",".","o","r","g","/","\"",","," ","\"","@","t","y","p","e","\"",":"," ","\"","P","o","d","c","a","s","t","S","e","r","i","e","s","\"",","," ","\"","n","a","m","e","\"",":"," ">>
           \o JsonStr(sh.show_title)
           \o <<","," ","\"","u","r","l","\"",":"," ">> \o JsonStr(sh.show_link)
           \o <<","," ","\"","i","m","a","g","e","\"",":"," ">> \o JsonStr(sh.show_image)
           \o <<","," ","\"","i","n","L","a","n","g","u","a","g","e","\"",":"," ">> \o JsonStr(sh.language)
           \o <<","," ","\"","d","e","s","c","r","i","p","t","i","o","n","\"",":"," ">>)>>
    \o (IF sh.summary_is_markup
        THEN <<Text(<<"\"">>)>> \o JsonEmbed(sh.summary_text) \o <<Text(<<"\"">>)>>
        ELSE IF sh.summary_text = <<>> THEN <<Text(JsonStr(<<>>))>>
        ELSE <<Text(JsonStr(Strip(sh.summary_text)))>>)
    \o (IF sh.show_author # <<>>
        THEN <<Text(<<","," ","\"","a","u","t","h","o","r","\"",":"," ","{","\"","@","t","y","p","e","\"",":"," ","\"","P","e","r","s","o","n","\"",","," ","\"","n","a","m","e","\"",":"," ">> \o JsonStr(sh.show_author) \o <<"}">>)>>
        ELSE <<>>)
    \o (IF sh.show_link # <<>>
        THEN <<Text(<<","," ","\"","p","o","t","e","n","t","i","a","l","A","c","t","i","o","n","\"",":"," ","[","{","\"","@","t","y","p","e","\"",":"," ","\"","L","i","s","t","e","n","A","c","t","i","o","n","\"",","," ","\"","t","a","r","g","e","t","\"",":"," ","[">>
                    \o JsonStr(sh.show_link) \o <<"]","}","]">>)>>
        ELSE <<>>)
    \o <<Text(<<"}">>)>>

\* the show-level values of lines 296-306; itunes_image is the href of the
\* itunes:image element, None without the element
ShowOf(channel) ==
    [ show_title |-> Or(Strip(Or(channel.title, <<>>)), DefaultShowTitle),
      show_description_html |-> sanitize_html(channel.description),
      show_author |-> Strip(Or(channel.author, <<>>)),
      show_image |-> IF channel.itunes_image # None THEN channel.itunes_image
                     ELSE Or(channel.image_url, <<>>),
      show_link |-> Strip(Or(channel.link, <<>>)),
      language |-> Or(Strip(Or(channel.language, DefaultLanguage)), DefaultLanguage),
      summary_text |-> IF Falsy(channel.summary) THEN channel.description ELSE channel.summary,
      summary_is_markup |-> Falsy(channel.summary) /\ channel.description # <<>> ]

\* the values the substitutions insert
Values(sh, eps, kws, year) ==
    [ show_title |-> sh.show_title,
      show_description_html |-> sh.show_description_html,
      show_author |-> sh.show_author,
      show_image |-> sh.show_image,
      show_link |-> sh.show_link,
      now_year |-> year,
      structured_data_block |-> StructuredDataBlock(sh),
      episodes_markup |-> RenderCards(eps),
      all_keywords |-> kws ]

\* the characters of a document
CharsOf(doc) ==
    UNION {{doc[i].text[c] : c \in DOMAIN doc[i].text} : i \in DOMAIN doc}
    \cup UNION {UNION {{doc[i].attrs[a].value[c] : c \in DOMAIN doc[i].attrs[a].value}
                       : a \in DOMAIN doc[i].attrs} : i \in DOMAIN doc}

\* a surrogate code point alone, which a JSON string may hold ("\ud800") and UTF-8
\* cannot encode
LoneSurrogate == "U+D800"

\* str.encode("utf-8") succeeds
Encodable(doc) == LoneSurrogate \notin CharsOf(doc)

\* Path.write_text opening the file for appending
write_text_append(old, doc) ==
    IF Encodable(doc)
    THEN [content |-> old \o doc, raised |-> ""]
    ELSE [content |-> old, raised |-> "UnicodeEncodeError"]

\* Path.write_text(doc, encoding="utf-8") on a file that holds old: open(mode="w")
\* empties the file, then the text is encoded and written
write_text(old, doc) ==
    IF Encodable(doc)
    THEN [content |-> doc, raised |-> ""]
    ELSE [content |-> <<>>, raised |-> "UnicodeEncodeError"]

\* an exception leaves main: nothing else is executed
Raise(e) ==
    /\ pc' = "failed"
    /\ error' = e
    /\ UNCHANGED <<disk, template_html, show, apple_episode_map, items, episodes,
                   all_keywords, now_year, result, applied>>

\* line 289
LoadTemplate ==
    /\ pc = "load_template"
    /\ IF disk.template.state # "ok"
       THEN Raise("OSError")
       ELSE /\ template_html' = disk.template.content
            /\ pc' = "parse_rss"
            /\ UNCHANGED <<disk, error, show, apple_episode_map, items, episodes,
                           all_keywords, now_year, result, applied>>

\* lines 291-306
ParseFeed ==
    /\ pc = "parse_rss"
    /\ IF disk.rss.state = "missing" THEN Raise("OSError")
       ELSE IF disk.rss.state = "malformed" THEN Raise("ParseError")
       ELSE IF disk.rss.state = "nochannel" THEN Raise("RuntimeError")
       ELSE /\ show' = ShowOf(disk.rss.channel)
            /\ items' = disk.rss.channel.items
            /\ pc' = "load_apple"
            /\ UNCHANGED <<disk, error, template_html, apple_episode_map, episodes,
                           all_keywords, now_year, result, applied>>

\* lines 308-314
LoadApple ==
    /\ pc = "load_apple"
    /\ IF disk.apple.state = "missing" THEN Raise("OSError")
       ELSE IF disk.apple.state = "malformed" THEN Raise("JSONDecodeError")
       ELSE IF disk.apple.state = "list" THEN Raise("AttributeError")
       ELSE /\ apple_episode_map' = EpisodeMap(disk.apple.results)
            /\ pc' = "episodes"
            /\ UNCHANGED <<disk, error, template_html, show, items, episodes,
                           all_keywords, now_year, result, applied>>

\* lines 318-346, one item
NextEpisode ==
    /\ pc = "episodes"
    /\ items # <<>>
    /\ LET episode == ExtractEpisode(Head(items), apple_episode_map) IN
       /\ episodes' = Append(episodes, episode)
       /\ all_keywords' = all_keywords \cup {episode.keywords[i] : i \in DOMAIN episode.keywords}
    /\ items' = Tail(items)
    /\ UNCHANGED <<pc, disk, error, template_html, show, apple_episode_map, now_year,
                   result, applied>>

\* the years the clock may show when main reads it
ClockYears == {2026, 2027}

\* lines 348-747
ComposeResult ==
    /\ pc = "episodes"
    /\ items = <<>>
    /\ \E year \in ClockYears :
          LET v == Values(show, episodes, all_keywords, year) IN
          IF \E k \in Substitutions : SubstitutionRaises(k, v)
          THEN Raise("re.error")
          ELSE /\ now_year' = year
               /\ result' = Compose(template_html, v)
               /\ applied' = Substitutions
               /\ pc' = "write"
               /\ error' = error
               /\ UNCHANGED <<disk, template_html, show, apple_episode_map, items, episodes,
                              all_keywords>>

\* line 749
WriteOutput ==
    /\ pc = "write"
    /\ LET written == write_text(disk.output, result) IN
       /\ disk' = [disk EXCEPT !.output = written.content]
       /\ error' = written.raised
       /\ pc' = IF written.raised = "" THEN "done" ELSE "failed"
    /\ UNCHANGED <<template_html, show, apple_episode_map, items, episodes, all_keywords,
                   now_year, result, applied>>

\* one substitution of lines 374-747 that result has not been through
ApplySubstitution(k) ==
    /\ pc = "substitute"
    /\ k \in Substitutions \ applied
    /\ LET v == Values(show, episodes, all_keywords, now_year) IN
       IF SubstitutionRaises(k, v)
       THEN Raise("re.error")
       ELSE /\ result' = Substitute(k, result, v)
            /\ applied' = applied \cup {k}
            /\ UNCHANGED <<pc, disk, error, template_html, show, apple_episode_map, items,
                           episodes, all_keywords, now_year>>

(***************************************************************************)
(* static_script: the tag filter that runs in the page.  The page is dom:  *)
(* the cards of the episode list with their keyword lists (data-keywords,  *)
(* as JSON.parse returns them) and hidden flags, the "no results" element, *)
(* the tag-search wrapper, the tag input and the chips of the selected     *)
(* tags.  The suggestion list, which depends on focus and on the text      *)
(* typed, is left out.                                                     *)
(***************************************************************************)
\* keywords.some((keyword) => activeTagSet.has(keyword))
SomeActive(keywords, tagset) == \E i \in DOMAIN keywords : keywords[i] \in tagset

\* filterEpisodes, on the page d
filterEpisodes(d, data, tags, tagset) ==
    LET hasActiveTags == Len(tags) > 0
        matches == [i \in DOMAIN data |-> ~hasActiveTags \/ SomeActive(data[i].keywords, tagset)]
        visibleCount == Cardinality({i \in DOMAIN data : matches[i]})
    IN [d EXCEPT !.cards = [c \in DOMAIN d.cards |->
                               IF \E i \in DOMAIN data : data[i].element = c
                               THEN [d.cards[c] EXCEPT !.hidden =
                                        ~matches[CHOOSE i \in DOMAIN data : data[i].element = c]]
                               ELSE d.cards[c]],
                 !.no_results_hidden = IF ~hasActiveTags THEN TRUE ELSE visibleCount > 0]

\* renderSelectedTags: one chip per active tag
renderSelectedTags(d, tags) == [d EXCEPT !.chips = tags]

\* setTagInputAvailability
setTagInputAvailability(d, isReady) == [d EXCEPT !.tag_input_disabled = ~isReady]

\* activeTagSet.delete(tag) that deletes nothing
DeleteNothing(tagset, tag) == tagset

\* activeTagSet.delete(tag)
Delete(tagset, tag) == tagset \ {tag}

\* activeTags.splice(activeTags.indexOf(tag), 1)
Splice(tags, tag) ==
    IF \E i \in DOMAIN tags : tags[i] = tag
    THEN LET index == CHOOSE i \in DOMAIN tags : tags[i] = tag /\ \A j \in 1..(i - 1) : tags[j] # tag
         IN SubSeq(tags, 1, index - 1) \o SubSeq(tags, index + 1, Len(tags))
    ELSE tags

\* initializeEpisodes
InitializeEpisodes ==
    /\ script = "loading"
    /\ LET data == [i \in DOMAIN dom.cards |-> [element |-> i, keywords |-> dom.cards[i].keywords]]
           all == UNION {{data[i].keywords[k] : k \in DOMAIN data[i].keywords} : i \in DOMAIN data}
       IN /\ episodesData' = data
          /\ allKeywordsSet' = all
          /\ keywordDataReady' = (Cardinality(all) > 0)
          /\ dom' = filterEpisodes(
                        setTagInputAvailability([dom EXCEPT !.tag_search_hidden = (Cardinality(all) = 0)],
                                                Cardinality(all) > 0),
                        data, activeTags, activeTagSet)
    /\ script' = "ready"
    /\ UNCHANGED <<activeTags, activeTagSet>>

\* addTag(tag)
AddTag(tag) ==
    /\ script = "ready"
    /\ IF tag = "" \/ tag \in activeTagSet
       THEN UNCHANGED <<dom, activeTags, activeTagSet>>
       ELSE /\ activeTags' = Append(activeTags, tag)
            /\ activeTagSet' = activeTagSet \cup {tag}
            /\ dom' = filterEpisodes(renderSelectedTags(dom, activeTags'), episodesData,
                                     activeTags', activeTagSet')
    /\ UNCHANGED <<script, episodesData, allKeywordsSet, keywordDataReady>>

\* removeTag(tag)
RemoveTag(tag) ==
    /\ script = "ready"
    /\ IF tag \notin activeTagSet
       THEN UNCHANGED <<dom, activeTags, activeTagSet>>
       ELSE /\ activeTagSet' = Delete(activeTagSet, tag)
            /\ activeTags' = Splice(activeTags, tag)
            /\ dom' = filterEpisodes(renderSelectedTags(dom, activeTags'), episodesData,
                                     activeTags', activeTagSet')
    /\ UNCHANGED <<script, episodesData, allKeywordsSet, keywordDataReady>>

MaxCards == 2

\* the tags handed to addTag and removeTag: keywords of cards, a tag of no card
\* and the empty string
InputTagNames == {"a", "b", "z", ""}

InputKeywordLists == {<<>>, <<"a">>, <<"b">>, <<"a", "b">>}

\* the pages the script may be loaded in
InputPages ==
    { [cards |-> cs, no_results_hidden |-> n, tag_search_hidden |-> TRUE,
       tag_input_disabled |-> FALSE, chips |-> <<>>] :
         cs \in UNION {[1..k -> [keywords : InputKeywordLists, hidden : BOOLEAN]] : k \in 0..MaxCards},
         n \in BOOLEAN }

\* no page is loaded
NoClient ==
    /\ script = "off"
    /\ dom = [cards |-> <<>>, no_results_hidden |-> TRUE, tag_search_hidden |-> TRUE,
              tag_input_disabled |-> FALSE, chips |-> <<>>]
    /\ episodesData = <<>>
    /\ allKeywordsSet = {}
    /\ activeTags = <<>>
    /\ activeTagSet = {}
    /\ keywordDataReady = FALSE

(***************************************************************************)
(* Inputs of the sanitizer                                                 *)
(***************************************************************************)
MaxEvents == 5

InputTags == {"script", "style", "b"}

InputTexts == {<<"x">>}

\* the events of documents without attributes, for the suppression stack
TagEvents ==
    {Event("start", t, <<>>, <<>>) : t \in InputTags}
    \cup {Event("end", t, <<>>, <<>>) : t \in InputTags}
    \cup {Event("startend", t, <<>>, <<>>) : t \in {"script", "b"}}
    \cup {Event("data", "", <<>>, d) : d \in InputTexts}

MaxAttrs == 2

InputAttrNames ==
    { <<"o","n","c","l","i","c","k">>, <<"O","n","L","o","a","d">>,
      <<"h","r","e","f">>, <<"S","R","C">>, <<"s","t","y","l","e">>,
      <<"t","i","t","l","e">> }

InputAttrValues ==
    { None,
      <<"j","a","v","a","s","c","r","i","p","t",":","x">>,
      <<"J","a","v","a","S","c","r","i","p","t",":","x">>,
      <<"\"","<","&">> }

InputAttrs == [name : InputAttrNames, value : InputAttrValues]

AttrLists == UNION {[1..n -> InputAttrs] : n \in 0..MaxAttrs}

\* one element with attributes, in the open or the self-closing form
AttrEvents ==
    {Event(k, t, as, <<>>) : k \in {"start", "startend"}, t \in {"a", "embed"}, as \in AttrLists}

\* what precedes the element: nothing, an open forbidden element, a closed one, text
AttrPrefixes ==
    { <<>>,
      <<Event("start", "script", <<>>, <<>>)>>,
      <<Event("start", "script", <<>>, <<>>), Event("end", "script", <<>>, <<>>)>>,
      <<Event("data", "", <<>>, <<"x">>), Event("end", "b", <<>>, <<>>)>> }

AttrDocs == {pre \o <<e>> : pre \in AttrPrefixes, e \in AttrEvents}

(***************************************************************************)
(* Inputs of main: the files it reads                                      *)
(***************************************************************************)
\* a template that holds every anchor the substitutions look for
Template ==
    << Open("a", <<Attr(<<"c","l","a","s","s">>, <<"b","r","a","n","d">>), Attr(<<"h","r","e","f">>, <<"#","t","o","p">>)>>), Text(<<"B","r","a","n","d">>), Close("a"),
       TitleOpen, Text(<<"T","i","t","l","e">>), Close("h1"),
       DescriptionOpen, Text(<<"A","b","o","u","t">>), Close("p"),
       AuthorOpen, Text(<<"H","o","s","t">>), Close("div"),
       SelfClose("img", <<Attr(<<"i","d">>, <<"s","h","o","w","-","c","o","v","e","r">>), Attr(<<"s","r","c">>, <<>>)>>),
       StructuredDataOpen, Text(<<"{","}">>), Close("script"),
       TagSearchHidden, Close("div"),
       Open("div", <<Attr(<<"i","d">>, <<"e","p","i","s","o","d","e","s">>), Attr(<<"c","l","a","s","s">>, <<"l","i","s","t">>)>>), Text(<<"n","o","n","e">>),
       Text(Indent8), Close("div"),
       Open("footer", <<>>),
       Open("a", <<Attr(<<"h","r","e","f">>, <<"#">>)>>), Text(<<"H","o","m","e">>), Close("a"),
       Text(<<"U+A9", " ">>), CopyrightOpen, Text(<<"2","0","0","0">>), Close("span"),
       Close("footer"),
       Open("script", <<>>), Text(<<"c","o","n","s","t"," ","s","t","r","u","c","t","u","r","e","d","D","a","t","a","E","l"," ","="," ","0",";">>), Close("script") >>

\* a template without footer and without script block
TemplateWithoutFooter == SubSeq(Template, 1, 22)

Templates == {Template, TemplateWithoutFooter}

\* a description that holds what the copyright pattern looks for
CopyrightDescription ==
    << Event("data", "", <<>>, <<"U+A9", " ">>),
       Event("start", "span", <<Attr(<<"i","d">>, <<"c","o","p","y","r","i","g","h","t","-","y","e","a","r">>)>>, <<>>),
       Event("data", "", <<>>, <<"1","9","9","9">>),
       Event("end", "span", <<>>, <<>>) >>

PlainDescription == <<Event("start", "b", <<>>, <<>>), Event("data", "", <<>>, <<"d">>), Event("end", "b", <<>>, <<>>)>>

MaxItems == 1

MaxResults == 1

\* the item elements of the feed
InputItems ==
    { [title |-> t, pubDate |-> None, duration |-> <<"9","0">>, encoded |-> <<>>,
       description |-> PlainDescription, summary |-> None, keywords |-> <<"k">>, image |-> None,
       guid |-> g] : t \in {None, <<>>, <<" ">>, <<"E">>}, g \in {None, <<" ">>, <<"G"," ">>} }

SeqsUpTo(S, n) == UNION {[1..k -> S] : k \in 0..n}

\* the channel element of the feed
InputChannels ==
    { [title |-> t, description |-> d, author |-> None, image_url |-> None,
       itunes_image |-> None, link |-> l, language |-> None, summary |-> None, items |-> its] :
         t \in {<<"S">>, <<"C", ":", "\\", "d">>},
         d \in {<<>>, PlainDescription, CopyrightDescription}, l \in {None, <<"l">>},
         its \in SeqsUpTo(InputItems, MaxItems) }

NoChannel ==
    [title |-> None, description |-> <<>>, author |-> None, image_url |-> None,
     itunes_image |-> None, link |-> None, language |-> None, summary |-> None, items |-> <<>>]

\* the feed file: absent, not XML, XML without channel, or a feed
InputFeeds ==
    {[state |-> st, channel |-> NoChannel] : st \in {"missing", "malformed", "nochannel"}}
    \cup {[state |-> "ok", channel |-> c] : c \in InputChannels}

\* the entries of "results" in the store metadata; a JSON string may hold a lone
\* surrogate
InputEntries ==
    { [episodeGuid |-> None, trackViewUrl |-> <<"u">>],
      [episodeGuid |-> <<" ">>, trackViewUrl |-> <<"u">>],
      [episodeGuid |-> <<"g">>, trackViewUrl |-> <<"u">>],
      [episodeGuid |-> <<"g">>, trackViewUrl |-> None],
      [episodeGuid |-> <<"g">>, trackViewUrl |-> <<LoneSurrogate>>] }

\* the store metadata file: absent, not JSON, a JSON list, or an object
InputMetadata ==
    {[state |-> st, results |-> <<>>] : st \in {"missing", "malformed", "list"}}
    \cup {[state |-> "ok", results |-> r] : r \in SeqsUpTo(InputEntries, MaxResults)}

InputTemplates ==
    {[state |-> "missing", content |-> <<>>]}
    \cup {[state |-> "ok", content |-> t] : t \in Templates}

\* what the output path holds before the run
OldOutput == <<Text(<<"o","l","d">>)>>

NoShow == ShowOf(NoChannel)

vars == <<sanVars, fmtVars, mainVars, clientVars>>

\* main is not running
NoMain ==
    /\ pc = "idle"
    /\ disk = [template |-> [state |-> "missing", content |-> <<>>],
               rss |-> [state |-> "missing", channel |-> NoChannel],
               apple |-> [state |-> "missing", results |-> <<>>],
               output |-> OldOutput]
    /\ error = ""
    /\ template_html = <<>>
    /\ show = NoShow
    /\ apple_episode_map = <<>>
    /\ items = <<>>
    /\ episodes = <<>>
    /\ all_keywords = {}
    /\ now_year = 0
    /\ result = <<>>
    /\ applied = {}
    /\ run = 1
    /\ previous = [output |-> <<>>, now_year |-> 0]

\* a new HTMLSanitizer, before feed
NewSanitizer ==
    /\ fed = <<>>
    /\ skip_stack = <<>>
    /\ parts = <<>>
    /\ origin = <<>>

\* no sanitizer is at work
NoSanitizer ==
    /\ NewSanitizer
    /\ rawdata = <<>>

\* the parser hands over any event, at most MaxEvents of them
Streamed ==
    /\ Len(fed) < MaxEvents
    /\ UNCHANGED <<rawdata, fmtVars, mainVars, clientVars>>

InitSanitizer ==
    /\ NewSanitizer
    /\ rawdata = <<>>
    /\ NoCall
    /\ NoMain
    /\ NoClient

\* the sanitizer fed any sequence of at most MaxEvents events
NextSanitizer ==
    \/ \E ev \in TagEvents : StartTag(ev) /\ Streamed
    \/ \E ev \in TagEvents : EndTag(ev) /\ Streamed
    \/ \E ev \in TagEvents : StartEndTag(ev) /\ Streamed
    \/ \E ev \in TagEvents : Data(ev) /\ Streamed

SpecSanitizer == InitSanitizer /\ [][NextSanitizer]_vars

\* the parser hands over the next event of the fed document
Parsed ==
    /\ rawdata # <<>>
    /\ rawdata' = Tail(rawdata)
    /\ UNCHANGED <<fmtVars, mainVars, clientVars>>

InitAttrs ==
    /\ NewSanitizer
    /\ rawdata \in AttrDocs
    /\ NoCall
    /\ NoMain
    /\ NoClient

\* the sanitizer fed one of the documents AttrDocs
NextAttrs ==
    \/ Parsed /\ StartTag(Head(rawdata))
    \/ Parsed /\ EndTag(Head(rawdata))
    \/ Parsed /\ StartEndTag(Head(rawdata))
    \/ Parsed /\ Data(Head(rawdata))

SpecAttrs == InitAttrs /\ [][NextAttrs]_vars

InitFormatters ==
    /\ NoSanitizer
    /\ callee = ""
    /\ returned = None
    /\ value \in DurationInputs \cup KeywordInputs
    /\ NoMain
    /\ NoClient

CallFormatDuration ==
    /\ value \in DurationInputs
    /\ Return("format_duration", format_duration(value))
    /\ UNCHANGED <<sanVars, mainVars, clientVars>>

CallParseKeywords ==
    /\ value \in KeywordInputs
    /\ Return("parse_keywords", parse_keywords(value))
    /\ UNCHANGED <<sanVars, mainVars, clientVars>>

\* one formatter applied to one input
NextFormatters ==
    \/ CallFormatDuration
    \/ CallParseKeywords

SpecFormatters == InitFormatters /\ [][NextFormatters]_vars

\* main started on any files
InitMain ==
    /\ NoSanitizer
    /\ NoCall
    /\ NoClient
    /\ pc = "load_template"
    /\ disk \in [template : InputTemplates, rss : InputFeeds, apple : InputMetadata,
                 output : {OldOutput}]
    /\ error = ""
    /\ template_html = <<>>
    /\ show = NoShow
    /\ apple_episode_map = <<>>
    /\ items = <<>>
    /\ episodes = <<>>
    /\ all_keywords = {}
    /\ now_year = 0
    /\ result = <<>>
    /\ applied = {}
    /\ run = 1
    /\ previous = [output |-> <<>>, now_year |-> 0]

\* the sanitizer and the formatters are at work only inside the steps of main
Inline == UNCHANGED <<sanVars, fmtVars, run, previous, clientVars>>

NextMain ==
    \/ LoadTemplate /\ Inline
    \/ ParseFeed /\ Inline
    \/ LoadApple /\ Inline
    \/ NextEpisode /\ Inline
    \/ ComposeResult /\ Inline
    \/ WriteOutput /\ Inline

SpecMain == InitMain /\ [][NextMain]_vars

\* main is called again on the files as they are; the template, the feed and the
\* store metadata are those of the first run
Rerun ==
    /\ pc = "done"
    /\ run = 1
    /\ run' = 2
    /\ previous' = [output |-> disk.output, now_year |-> now_year]
    /\ pc' = "load_template"
    /\ template_html' = <<>>
    /\ show' = NoShow
    /\ apple_episode_map' = <<>>
    /\ items' = <<>>
    /\ episodes' = <<>>
    /\ all_keywords' = {}
    /\ now_year' = 0
    /\ result' = <<>>
    /\ applied' = {}
    /\ UNCHANGED <<disk, error, sanVars, fmtVars, clientVars>>

\* main run twice
NextTwice ==
    \/ LoadTemplate /\ Inline
    \/ ParseFeed /\ Inline
    \/ LoadApple /\ Inline
    \/ NextEpisode /\ Inline
    \/ ComposeResult /\ Inline
    \/ WriteOutput /\ Inline
    \/ Rerun

SpecTwice == InitMain /\ [][NextTwice]_vars

\* the episodes main extracts from the items its, without store metadata
RECURSIVE Extracted(_)
Extracted(its) ==
    IF its = <<>> THEN <<>> ELSE <<ExtractEpisode(Head(its), <<>>)>> \o Extracted(Tail(its))

\* an item whose description holds what the copyright pattern looks for
CopyrightItem ==
    [title |-> <<"E">>, pubDate |-> None, duration |-> None, encoded |-> CopyrightDescription,
     description |-> <<>>, summary |-> None, keywords |-> <<"k">>, image |-> None, guid |-> None]

\* main at line 374: the values are computed, result is the template
InitTemplate ==
    /\ NoSanitizer
    /\ NoCall
    /\ NoClient
    /\ error = ""
    /\ template_html \in Templates
    /\ pc = "substitute"
    /\ disk = [template |-> [state |-> "ok", content |-> template_html],
               rss |-> [state |-> "missing", channel |-> NoChannel],
               apple |-> [state |-> "missing", results |-> <<>>],
               output |-> OldOutput]
    /\ show \in {ShowOf(c) : c \in InputChannels}
    /\ apple_episode_map = <<>>
    /\ items = <<>>
    /\ episodes \in {<<>>, Extracted(<<CopyrightItem>>)}
    /\ all_keywords = UNION {{episodes[i].keywords[j] : j \in DOMAIN episodes[i].keywords} : i \in DOMAIN episodes}
    /\ now_year \in ClockYears
    /\ result = template_html
    /\ applied = {}
    /\ run = 1
    /\ previous = [output |-> <<>>, now_year |-> 0]

\* the substitutions applied in any order
NextTemplate == \E k \in Substitutions : ApplySubstitution(k) /\ Inline

SpecTemplate == InitTemplate /\ [][NextTemplate]_vars

\* the script starts in any page, before initializeEpisodes
InitClient ==
    /\ NoSanitizer
    /\ NoCall
    /\ NoMain
    /\ script = "loading"
    /\ dom \in InputPages
    /\ episodesData = <<>>
    /\ allKeywordsSet = {}
    /\ activeTags = <<>>
    /\ activeTagSet = {}
    /\ keywordDataReady = FALSE

\* the page does not touch the generator
Served == UNCHANGED <<sanVars, fmtVars, mainVars>>

NextClient ==
    \/ InitializeEpisodes /\ Served
    \/ \E tag \in InputTagNames : AddTag(tag) /\ Served
    \/ \E tag \in InputTagNames : RemoveTag(tag) /\ Served

SpecClient == InitClient /\ [][NextClient]_vars

(***************************************************************************)
(* Sanitizer: properties                                                   *)
(***************************************************************************)
IsForbiddenStart(e) == e.kind = "start" /\ e.tag \in FORBIDDEN_TAGS

\* how many events of kind k and tag t lie strictly between positions i and j of s
CountBetween(s, i, j, k, t) ==
    Cardinality({n \in (i + 1)..(j - 1) : s[n].kind = k /\ s[n].tag = t})

\* position j holds the end tag matching the start tag at position i: the first end
\* tag of that name before which the start and end tags of the name balance
IsMatchingEnd(s, i, j) ==
    /\ j > i
    /\ s[j].kind = "end"
    /\ s[j].tag = s[i].tag
    /\ CountBetween(s, i, j, "start", s[i].tag) = CountBetween(s, i, j, "end", s[i].tag)
    /\ \A m \in (i + 1)..(j - 1) :
          ~(/\ s[m].kind = "end"
            /\ s[m].tag = s[i].tag
            /\ CountBetween(s, i, m, "start", s[i].tag) = CountBetween(s, i, m, "end", s[i].tag))

\* position p lies between a forbidden start tag and its matching end tag (or the
\* end of the input, when the element is never closed)
InsideForbidden(s, p) ==
    \E i \in 1..(p - 1) :
        /\ IsForbiddenStart(s[i])
        /\ \A j \in (i + 1)..p : ~IsMatchingEnd(s, i, j)

IsTagPart(p) == p.kind \in {"open", "close", "selfclose"}

\* C1: whatever events were fed, no emitted part comes from an event lying between
\* a forbidden start tag and its matching end tag, and no emitted tag, in open,
\* close or self-closing form, bears a forbidden name.
C1_ForbiddenSubtreeDropped ==
    \A k \in DOMAIN parts :
        /\ origin[k] \in DOMAIN fed
        /\ ~InsideForbidden(fed, origin[k])
        /\ IsTagPart(parts[k]) => parts[k].tag \notin FORBIDDEN_TAGS

\* a forbidden element holding a nested, closed forbidden element has been closed,
\* nothing of it was emitted, and the text after it was
C1_Witness ==
    /\ Len(fed) = 5
    /\ IsForbiddenStart(fed[1])
    /\ IsForbiddenStart(fed[2])
    /\ IsMatchingEnd(fed, 2, 3)
    /\ IsMatchingEnd(fed, 1, 4)
    /\ fed[5].kind = "data"
    /\ origin = <<5>>

\* the attributes of the input element that produced parts[k]
InputAttrsOf(k) == fed[origin[k]].attrs

IsElementPart(p) == p.kind \in {"open", "selfclose"}

OnPrefixed(name) == StartsWith(Lower(name), <<"o","n">>)

IsHrefOrSrc(name) == Lower(name) = <<"h","r","e","f">> \/ Lower(name) = <<"s","r","c">>

JavascriptValue(v) ==
    StartsWith(Lower(v), <<"j","a","v","a","s","c","r","i","p","t",":">>)

IsStyle(name) == Lower(name) = <<"s","t","y","l","e">>

\* C2: no emitted element carries an attribute named on... (any case), an href or
\* src whose value starts with javascript: (any case), or a style attribute.
C2_NoUnsafeAttribute ==
    \A k \in DOMAIN parts :
        IsElementPart(parts[k]) =>
            \A n \in DOMAIN parts[k].attrs :
                LET a == parts[k].attrs[n] IN
                /\ ~OnPrefixed(a.name)
                /\ ~(IsHrefOrSrc(a.name) /\ JavascriptValue(a.value))
                /\ ~IsStyle(a.name)

\* an element whose input attributes include an on-handler in mixed case, a
\* javascript: href or src and a style attribute was emitted
C2_Witness ==
    \E k \in DOMAIN parts :
        /\ IsElementPart(parts[k])
        /\ \E n, m \in DOMAIN InputAttrsOf(k) :
              /\ n # m
              /\ InputAttrsOf(k)[n].name = <<"O","n","L","o","a","d">>
              /\ InputAttrsOf(k)[n].value # None
              /\ InputAttrsOf(k)[m].name = <<"S","R","C">>
              /\ InputAttrsOf(k)[m].value = <<"J","a","v","a","S","c","r","i","p","t",":","x">>

\* an attribute none of the three removal rules applies to
Harmless(a) ==
    /\ ~OnPrefixed(a.name)
    /\ ~(IsHrefOrSrc(a.name) /\ a.value # None /\ JavascriptValue(a.value))
    /\ ~IsStyle(a.name)

\* the harmless attributes of s, in order; with needValue only those that have a value
RECURSIVE SelectHarmless(_, _)
SelectHarmless(s, needValue) ==
    IF s = <<>> THEN <<>>
    ELSE (IF Harmless(Head(s)) /\ (needValue => Head(s).value # None)
          THEN <<Head(s)>>
          ELSE <<>>) \o SelectHarmless(Tail(s), needValue)

Names(as) == [n \in DOMAIN as |-> as[n].name]

\* C3 as stated: the emitted element keeps, in input order, every harmless input
\* attribute, those written without a value included.
C3_AllHarmlessKept ==
    \A k \in DOMAIN parts :
        IsElementPart(parts[k]) =>
            Names(parts[k].attrs) = Names(SelectHarmless(InputAttrsOf(k), FALSE))

\* C3 amended: the emitted element keeps, in input order and with the value
\* HTML-escaped (quotes too), exactly the harmless input attributes that have a
\* value; an attribute written without a value is dropped.
C3_HarmlessWithValueKept ==
    \A k \in DOMAIN parts :
        IsElementPart(parts[k]) =>
            LET kept == SelectHarmless(InputAttrsOf(k), TRUE) IN
            /\ Names(parts[k].attrs) = Names(kept)
            /\ \A n \in DOMAIN kept :
                  /\ parts[k].attrs[n].value = html_escape(kept[n].value, TRUE)
                  /\ \A c \in DOMAIN parts[k].attrs[n].value :
                        parts[k].attrs[n].value[c] \notin {"\"", "<", ">", "'"}

\* an element was emitted with a kept attribute whose value needed escaping, its
\* input also holding a harmless attribute without a value
C3_Witness ==
    \E k \in DOMAIN parts :
        /\ IsElementPart(parts[k])
        /\ Len(parts[k].attrs) = 1
        /\ parts[k].attrs[1].value = <<"&","q","u","o","t",";","&","l","t",";","&","a","m","p",";">>
        /\ \E n \in DOMAIN InputAttrsOf(k) :
              Harmless(InputAttrsOf(k)[n]) /\ InputAttrsOf(k)[n].value = None

(***************************************************************************)
(* Field formatters: properties                                            *)
(***************************************************************************)
Str90 == <<"9","0">>

Str0Colon5 == <<"0",":","5">>

\* the segment list the rule of C4 prescribes for h hours, m minutes, s seconds
ExpectedSegments(h, m, s) ==
    (IF h # 0 THEN <<ToStr(h) \o <<" ", "U+5C0F", "U+6642">>>> ELSE <<>>)
    \o (IF m # 0 THEN <<ToStr(m) \o <<" ", "U+5206">>>> ELSE <<>>)
    \o (IF h = 0 /\ s # 0 THEN <<ToStr(s) \o <<" ", "U+79D2">>>> ELSE <<>>)

NonBlank(v) == v # None /\ \E i \in DOMAIN v : ~IsSpace(v[i])

\* C4: for a non-blank input whose computed total has h hours, m minutes and s
\* seconds, the output is the space-joined list of the hours segment iff h # 0, the
\* minutes segment iff m # 0 and the seconds segment iff h = 0 and s # 0; from 3600
\* seconds on, no seconds segment appears.
C4_DurationSegments ==
    (callee = "format_duration" /\ NonBlank(value)) =>
        LET total == TotalSeconds(Strip(value))
            h == total \div 3600
            m == (total % 3600) \div 60
            s == total % 60
        IN /\ returned = JoinSpace(ExpectedSegments(h, m, s))
           /\ total >= 3600 => \A i \in DOMAIN returned : returned[i] # "U+79D2"

\* a duration of an hour or more with minutes and seconds, given as H:M:S, was formatted
C4_Witness ==
    /\ callee = "format_duration"
    /\ value = <<"1",":","0","0",":","5","9">>
    /\ returned = <<"1"," ","U+5C0F","U+6642">>

\* C5 as stated: "90" gives the minutes segment alone, "0:5" gives "5 <seconds>".
C5_Examples ==
    callee = "format_duration" =>
        /\ value = Str90 => returned = <<"1"," ","U+5206">>
        /\ value = Str0Colon5 => returned = <<"5"," ","U+79D2">>

\* C5 amended: "90" gives "1 <minutes> 30 <seconds>" (a minute and thirty seconds,
\* with no hours the seconds are shown) and "0:5" gives "5 <seconds>".
C5_ExamplesAmended ==
    callee = "format_duration" =>
        /\ value = Str90 => returned = <<"1"," ","U+5206"," ","3","0"," ","U+79D2">>
        /\ value = Str0Colon5 => returned = <<"5"," ","U+79D2">>

\* format_duration("90") has returned
C5_Witness == callee = "format_duration" /\ value = Str90 /\ returned # None

IsComma(c) == c = "," \/ c = "U+FF0C"

\* the positions that bound the pieces of v: before the start, each comma, after the end
Cuts(v) == {0, Len(v) + 1} \cup {i \in DOMAIN v : IsComma(v[i])}

\* the piece of v that starts after the cut c
PieceAfter(v, c) ==
    LET next == CHOOSE d \in Cuts(v) : d > c /\ \A e \in Cuts(v) : e > c => d <= e
    IN SubSeq(v, c + 1, next - 1)

\* the cut after which the trimmed piece w first occurs in v
FirstCut(v, w) ==
    CHOOSE c \in Cuts(v) \ {Len(v) + 1} :
        /\ Strip(PieceAfter(v, c)) = w
        /\ \A d \in Cuts(v) \ {Len(v) + 1} : Strip(PieceAfter(v, d)) = w => c <= d

TrimmedPieces(v) == {Strip(PieceAfter(v, c)) : c \in Cuts(v) \ {Len(v) + 1}} \ {<<>>}

\* C6: the list parse_keywords returns holds no empty string and no string twice;
\* its elements are exactly the non-empty trimmed pieces between the ASCII and
\* full-width commas of the input, in the order of their first occurrence.
C6_KeywordsDistinctInOrder ==
    (callee = "parse_keywords" /\ value # None) =>
        /\ \A i \in DOMAIN returned : returned[i] # <<>>
        /\ \A i, j \in DOMAIN returned : i # j => returned[i] # returned[j]
        /\ {returned[i] : i \in DOMAIN returned} = TrimmedPieces(value)
        /\ \A i, j \in DOMAIN returned :
              i < j => FirstCut(value, returned[i]) < FirstCut(value, returned[j])

\* the example of the specification: both commas, blanks, a repeated keyword
C6_Witness ==
    /\ callee = "parse_keywords"
    /\ value = <<"A",","," ","B",",","A"," ",",","U+FF0C","C">>
    /\ returned = << <<"A">>, <<"B">>, <<"C">> >>

(***************************************************************************)
(* main: properties                                                        *)
(***************************************************************************)
\* the item of the feed that episodes[i] was extracted from
ItemOf(i) == disk.rss.channel.items[i]

\* the identifier of the item is absent, empty or only whitespace
BlankGuid(item) == Falsy(item.guid) \/ Strip(item.guid) = <<>>

\* C7: an episode whose item has an absent, empty or blank identifier has no
\* link from the store metadata, and its card has no action-link block.
C7_BlankGuidNeverMatches ==
    \A i \in DOMAIN episodes :
        BlankGuid(ItemOf(i)) =>
            /\ episodes[i].apple_link = <<>>
            /\ \A k \in DOMAIN render_episode_card(episodes[i]) :
                  render_episode_card(episodes[i])[k] # ActionBlock(episodes[i])[1]

\* the title of the item is absent, empty or blank after trimming
BlankTitle(item) == Falsy(item.title) \/ Strip(item.title) = <<>>

\* C8: an episode whose item has an absent, empty or blank title has the
\* placeholder title, and no episode has an empty title.
C8_BlankTitleIsPlaceholder ==
    \A i \in DOMAIN episodes :
        /\ episodes[i].title # <<>>
        /\ BlankTitle(ItemOf(i)) => episodes[i].title = PlaceholderTitle

\* C9: when every substitution has been applied, in whatever order, the
\* document is the one main computes in its own order.
C9_OrderIndependent ==
    (pc = "substitute" /\ applied = Substitutions) =>
        result = Compose(template_html, Values(show, episodes, all_keywords, now_year))

\* C10: a run that failed left the output path as it was, a run that finished
\* left the complete document there, and the output path changes in no other
\* state.
C10_AllOrNothing ==
    /\ pc = "failed" => disk.output = OldOutput
    /\ pc = "done" => disk.output = result
    /\ pc \notin {"failed", "done"} => disk.output = OldOutput

\* the second run has finished
RanTwice == run = 2 /\ pc = "done"

\* C11: the second run on unchanged files leaves the output the first run left,
\* whatever the clock shows.
C11_Idempotent == RanTwice => disk.output = previous.output

\* C11, amended: the second run leaves the output of the first when both read the
\* same year from the clock.
C11_IdempotentWithinYear ==
    (RanTwice /\ now_year = previous.now_year) => disk.output = previous.output

C11_Witness ==
    /\ RanTwice
    /\ now_year = previous.now_year
    /\ disk.template.content = Template
    /\ episodes # <<>>
    /\ disk.output = result
    /\ disk.output # OldOutput

\* the event the handler of this step was given
Handed == fed'[Len(fed')]

\* the step of the suppression stack that the event handed over calls for
StackStep ==
    skip_stack' =
        CASE Handed.kind = "start" /\ Handed.tag \in FORBIDDEN_TAGS -> Append(skip_stack, Handed.tag)
          [] Handed.kind = "end" /\ skip_stack # <<>> /\ Handed.tag = skip_stack[Len(skip_stack)] ->
                 SubSeq(skip_stack, 1, Len(skip_stack) - 1)
          [] OTHER -> skip_stack

\* output resumes only at the end tag that matches the element that began the
\* suppression, with nothing left above it
ResumesOnlyAtMatch ==
    (skip_stack # <<>> /\ skip_stack' = <<>>) =>
        /\ Handed.kind = "end"
        /\ Handed.tag = skip_stack[1]
        /\ Len(skip_stack) = 1

\* something is emitted only while nothing is suppressed, and then every tag that
\* is not forbidden and every non-empty text is emitted
EmitsIffNotSuppressing ==
    /\ parts' # parts => skip_stack = <<>> /\ skip_stack' = <<>>
    /\ (skip_stack = <<>> /\ Handed.tag \notin FORBIDDEN_TAGS
            /\ (Handed.kind = "data" => Handed.data # <<>>))
        => Len(parts') = Len(parts) + 1

\* C13: in every step of the sanitizer a forbidden start tag is pushed, an end tag
\* pops exactly when it equals the top of the stack, no other event changes the
\* stack, output happens exactly while the stack is empty, and the stack becomes
\* empty only at the end tag matching the element that began the suppression.
C13_SuppressionStack == [][StackStep /\ ResumesOnlyAtMatch /\ EmitsIffNotSuppressing]_vars

\* two forbidden elements opened, the end tag of the outer one ignored, and
\* suppression lasting to the end of the input
C13_Witness ==
    /\ Len(fed) = 5
    /\ IsForbiddenStart(fed[1])
    /\ IsForbiddenStart(fed[2])
    /\ fed[2].tag # fed[1].tag
    /\ fed[3].kind = "end" /\ fed[3].tag = fed[1].tag
    /\ fed[4].kind = "data" /\ fed[4].data # <<>>
    /\ fed[5].kind = "startend"
    /\ skip_stack = <<fed[1].tag, fed[2].tag>>
    /\ parts = <<>>

(***************************************************************************)
(* Template compositor: properties                                         *)
(***************************************************************************)
\* where the opening tag of the pattern of substitution k occurs
AnchorOpens(k, doc) ==
    CASE k = 1 -> Positions(doc, BrandOpen)
      [] k = 2 -> Positions(doc, TitleOpen)
      [] k = 3 -> Positions(doc, DescriptionOpen)
      [] k = 4 -> Positions(doc, AuthorOpen)
      [] k = 5 -> {i \in DOMAIN doc : StartsWithAttr(doc[i], {"open", "selfclose"}, "img", <<"i","d">>)
                                      /\ doc[i].attrs[1].value = <<"s","h","o","w","-","c","o","v","e","r">>}
      [] k = 6 -> {i \in DOMAIN doc : doc[i].kind = "open" /\ doc[i].tag = "footer"}
      [] k = 7 -> {i \in DOMAIN doc : EndsWithCopyrightSign(doc[i]) /\ i < Len(doc) /\ doc[i + 1] = CopyrightOpen}
      [] k = 8 -> Positions(doc, StructuredDataOpen)
      [] k = 9 -> {i \in DOMAIN doc : StartsWithAttr(doc[i], {"open"}, "div", <<"i","d">>)
                                      /\ doc[i].attrs[1].value = <<"e","p","i","s","o","d","e","s">>}
      [] k = 10 -> Positions(doc, TagSearchHidden)
      [] k = 11 -> {i \in DOMAIN doc : /\ doc[i] = Open("script", <<>>)
                                       /\ i < Len(doc)
                                       /\ doc[i + 1].kind = "text"
                                       /\ StartsWith(LStrip(doc[i + 1].text), <<"c","o","n","s","t"," ","s","t","r","u","c","t","u","r","e","d","D","a","t","a","E","l">>)}

\* where the pattern of substitution k can end, after an opening at i
AnchorCloses(k, doc, i) ==
    CASE k = 1 -> {j \in Positions(doc, Close("a")) : j > i}
      [] k = 2 -> {j \in Positions(doc, Close("h1")) : j > i}
      [] k = 3 -> {j \in Positions(doc, Close("p")) : j > i}
      [] k = 4 -> {j \in Positions(doc, Close("div")) : j > i}
      [] k \in {5, 10} -> {i}
      [] k = 6 -> {j \in DOMAIN doc : j > i /\ StartsWithAttr(doc[j], {"open", "selfclose"}, "a", <<"h","r","e","f">>)}
      [] k \in {7, 11} -> {j \in Positions(doc, Close("span" )) : k = 7 /\ j > i + 1}
                          \cup {j \in Positions(doc, Close("script")) : k = 11 /\ j > i + 1}
      [] k = 8 -> {j \in Positions(doc, Close("script")) : j > i}
      [] k = 9 -> {j \in DOMAIN doc : j > i + 1 /\ doc[j] = Close("div") /\ doc[j - 1] = Text(Indent8)}

\* the pattern of substitution k occurs in doc
AnchorOccurs(k, doc) == \E i \in AnchorOpens(k, doc) : AnchorCloses(k, doc, i) # {}

\* the first and the last tag or text that the first occurrence reaches
FirstOccurrence(k, doc) ==
    LET i == Least({o \in AnchorOpens(k, doc) : AnchorCloses(k, doc, o) # {}})
        j == Least(AnchorCloses(k, doc, i))
    IN <<IF k = 11 /\ i > 1 /\ doc[i - 1].kind = "text" THEN i - 1 ELSE i, j>>

\* after differs from before inside the first occurrence of the pattern of k at most
KeptOutside(k, before, after) ==
    IF ~AnchorOccurs(k, before) THEN after = before
    ELSE LET first == FirstOccurrence(k, before)[1]
             rest == Len(before) - FirstOccurrence(k, before)[2]
         IN /\ Len(after) >= first - 1 + rest
            /\ SubSeq(after, 1, first - 1) = SubSeq(before, 1, first - 1)
            /\ SubSeq(after, Len(after) - rest + 1, Len(after))
                 = SubSeq(before, Len(before) - rest + 1, Len(before))

\* a substitution that was applied left everything outside its first occurrence
FrameKept == \A k \in applied' \ applied : KeptOutside(k, result, result')

\* C14: every substitution raises no error, returns the document unchanged when
\* its pattern does not occur, and otherwise changes nothing outside the first
\* occurrence of its pattern.
C14_OneRegion == [][pc = "substitute" => (pc' # "failed" /\ FrameKept)]_vars

(***************************************************************************)
(* static_script: properties                                               *)
(***************************************************************************)
\* the tags that are active
ActiveTags == {activeTags[i] : i \in DOMAIN activeTags}

\* the card shares a keyword with the active tags
SharesKeyword(card) == \E k \in DOMAIN card.keywords : card.keywords[k] \in ActiveTags

\* C12: once initialized, a card is visible iff no tag is active or its keywords
\* share one with the active tags, and the "no results" element is shown iff a
\* tag is active and no card is visible.
C12_FilterInvariant ==
    script = "ready" =>
        /\ \A c \in DOMAIN dom.cards :
              ~dom.cards[c].hidden <=> (ActiveTags = {} \/ SharesKeyword(dom.cards[c]))
        /\ ~dom.no_results_hidden <=>
              (ActiveTags # {} /\ \A c \in DOMAIN dom.cards : dom.cards[c].hidden)

\* two tags active, one card shown and one hidden
C12_Witness ==
    /\ script = "ready"
    /\ Len(activeTags) = 2
    /\ \E c \in DOMAIN dom.cards : dom.cards[c].hidden
    /\ \E c \in DOMAIN dom.cards : ~dom.cards[c].hidden
    /\ dom.no_results_hidden

====
